---- MODULE Spec2Model ----
(***************************************************************************)
(* Model of crates/pam/src/conv.rs: the PAM conversation channel.          *)
(*                                                                         *)
(* Conv<'a> borrows an Inner {conv, appdata_ptr}.  Conv::send builds one   *)
(* PamMessage, calls the foreign callback once and decodes the            *)
(* PamResponse it produced.  Conv is also an Item: from_raw / into_raw     *)
(* convert between the borrowed wrapper and the raw pointer.               *)
(*                                                                         *)
(* Memory is modelled explicitly: two Inner structures live at HandleA and  *)
(* HandleB, the outbound CString is one heap cell (msg_cstr), the          *)
(* callee-owned PamResponse and its text are two cells (pam_response,      *)
(* resp_text).  send is split at its one foreign call: SendCall is lines   *)
(* 80-87 up to the entry of the callback, Callback is the foreign code,    *)
(* SendReturn is lines 89-100.                                             *)
(***************************************************************************)
EXTENDS Integers, Sequences, FiniteSets, TLC

\* ---------------------------------------------------------------- bounds
MaxLen == 2        \* longest input text handed to send
MaxRespLen == 2    \* largest response text buffer the callback produces
MaxByte == 1       \* bytes are 0..MaxByte; 0 is the C terminator

\* ------------------------------------------------------------ vocabulary
NULL == 0

Bytes == 0..MaxByte

Texts(n) == UNION {[1..k -> Bytes] : k \in 0..n}

\* Message styles listed in the documentation of send.
Styles ==
    {"PAM_PROMPT_ECHO_OFF", "PAM_PROMPT_ECHO_ON", "PAM_ERROR_MSG",
     "PAM_TEXT_INFO", "PAM_RADIO_TYPE", "PAM_BINARY_PROMPT"}

PAM_SUCCESS == "PAM_SUCCESS"

\* PamResultCode is imported; send only compares it with PAM_SUCCESS, so the
\* failure codes are represented by three of its members.
ResultCodes == {PAM_SUCCESS, "PAM_CONV_ERR", "PAM_BUF_ERR", "PAM_ABORT"}

\* Addresses of the two Inner structures the framework holds.
HandleA == NULL + 1

HandleB == NULL + 2

Addrs == {HandleA, HandleB}

\* The conversation functions and the opaque contexts an Inner can name.
Callbacks == {"conv_a", "conv_b"}

AppDataPtrs == {NULL, NULL + 1}

\* struct Inner { conv, appdata_ptr }
InnerValues == [conv : Callbacks, appdata_ptr : AppDataPtrs]

\* The memories the model starts from: the two handles differ, either in
\* the context only or in the callback only.
Memories ==
    {m \in [Addrs -> InnerValues] :
        /\ m[HandleA] = [conv |-> "conv_a", appdata_ptr |-> NULL + 1]
        /\ m[HandleB] # m[HandleA]
        /\ \/ m[HandleB].conv = m[HandleA].conv
           \/ m[HandleB].appdata_ptr = m[HandleA].appdata_ptr}

\* Address of the PamResponse the callback allocates, and of its text.
RespAddr == NULL + 1

TextAddr == NULL + 1

\* Address of the outbound CString's buffer (msg_cstr.as_ptr()).
MsgAddr == NULL + 1

\* struct PamResponse { resp, resp_retcode }
PamResponse(resp) == [resp |-> resp, resp_retcode |-> 0]

NoResponse == PamResponse(NULL)

\* Response text memory: a buffer that holds a terminator somewhere.
RespBuffers == {b \in Texts(MaxRespLen + 1) : \E i \in 1..Len(b) : b[i] = 0}

\* ------------------------------------------------------- values of send
NoConv == [ref |-> NULL]

Convs == {[ref |-> a] : a \in Addrs}

Ok(some, text) == [tag |-> "Ok", code |-> PAM_SUCCESS, some |-> some, text |-> text]

OkNone == Ok(FALSE, <<>>)

OkSome(text) == Ok(TRUE, text)

Err(code) == [tag |-> "Err", code |-> code, some |-> FALSE, text |-> <<>>]

NoResult == [tag |-> "None", code |-> PAM_SUCCESS, some |-> FALSE, text |-> <<>>]

Panicked == [tag |-> "Panic", code |-> PAM_SUCCESS, some |-> FALSE, text |-> <<>>]

NoCall == [fn |-> "none", num_msg |-> 0, msg_style |-> "none", msg |-> NULL,
           appdata_ptr |-> NULL]

NotSeen == [fn |-> "none", num_msg |-> 0, msg_style |-> "none", text |-> <<>>,
            appdata_ptr |-> NULL]

NoBuffer == [live |-> FALSE, bytes |-> <<>>]

VARIABLES
    inner,          \* memory: address -> Inner
    chan,           \* the Conv value held by the module (NoConv when consumed)
    rawp,           \* the raw *const Inner produced by into_raw (NULL if none)
    orig,           \* the Conv that the last into_raw consumed
    pc,             \* position of send
    style,          \* the style argument of the current or last send
    msg,            \* send's msg argument
    msg_cstr,       \* the CString built at line 81
    resp_ptr,       \* the response output slot of line 80
    ret,            \* the status returned by the callback
    call,           \* the arguments of the foreign call of line 87
    cb,             \* what the callback observed through its arguments
    calls,          \* callback invocations made by the current send
    pam_response,   \* memory: the PamResponse at RespAddr
    resp_text,      \* memory: the bytes at TextAddr
    derefs,         \* response pointers send has dereferenced in this call
    result          \* the value send returned

vars == <<inner, chan, rawp, orig, pc, style, msg, msg_cstr, resp_ptr, ret,
          call, cb, calls, pam_response, resp_text, derefs, result>>

\* ------------------------------------------------------- pure functions

HasNul(s) == \E i \in 1..Len(s) : s[i] = 0

\* Variant: the text is cut at its first nul instead of being rejected.
CStringNew_truncate(s) ==
    IF HasNul(s)
    THEN [ok |-> TRUE,
          bytes |-> Append(SubSeq(s, 1, (CHOOSE i \in 1..Len(s) :
                        s[i] = 0 /\ \A j \in 1..(i - 1) : s[j] # 0) - 1), 0)]
    ELSE [ok |-> TRUE, bytes |-> Append(s, 0)]

\* Variant: the bytes are handed over without a terminator.
CStringNew_unterminated(s) ==
    IF HasNul(s)
    THEN [ok |-> FALSE, bytes |-> <<>>]
    ELSE [ok |-> TRUE, bytes |-> s]

\* CString::new(msg): an interior nul is an error, otherwise the bytes are
\* copied and one terminator is appended.
CStringNew(s) ==
    IF HasNul(s)
    THEN [ok |-> FALSE, bytes |-> <<>>]
    ELSE [ok |-> TRUE, bytes |-> Append(s, 0)]

\* Variant: the terminator is taken as part of the text.
CStrFromPtr_inclusive(mem) ==
    LET n == CHOOSE i \in 1..Len(mem) :
                 mem[i] = 0 /\ \A j \in 1..(i - 1) : mem[j] # 0
    IN SubSeq(mem, 1, n)

\* CStr::from_ptr(p): the bytes from p up to, and excluding, the first nul.
CStrFromPtr(mem) ==
    LET n == CHOOSE i \in 1..Len(mem) :
                 mem[i] = 0 /\ \A j \in 1..(i - 1) : mem[j] # 0
    IN SubSeq(mem, 1, n - 1)

\* Variant: the opaque context is not passed on.
CallArgs_nullctx(self, st) ==
    [fn |-> inner[self.ref].conv,
     num_msg |-> 1,
     msg_style |-> st,
     msg |-> MsgAddr,
     appdata_ptr |-> NULL]

\* The arguments of (self.0.conv)(1, &&msg, &mut resp_ptr, self.0.appdata_ptr).
CallArgs(self, st) ==
    [fn |-> inner[self.ref].conv,
     num_msg |-> 1,
     msg_style |-> st,
     msg |-> MsgAddr,
     appdata_ptr |-> inner[self.ref].appdata_ptr]

\* Variant: every failure is reported as one generic code.
SendResult_generic(r, response, mem) ==
    IF r = PAM_SUCCESS
    THEN IF response = NULL
         THEN OkNone
         ELSE OkSome(CStrFromPtr(mem))
    ELSE Err("PAM_CONV_ERR")

\* Variant: a Response without text is treated as a failed conversation.
SendResult_strict(r, response, mem) ==
    IF r = PAM_SUCCESS
    THEN IF response = NULL
         THEN Err("PAM_CONV_ERR")
         ELSE OkSome(CStrFromPtr(mem))
    ELSE Err(r)

\* Lines 89-99, given the status and the Response read through resp_ptr.
SendResult(r, response, mem) ==
    IF r = PAM_SUCCESS
    THEN IF response = NULL
         THEN OkNone
         ELSE OkSome(CStrFromPtr(mem))
    ELSE Err(r)

\* Item::into_raw: self.0 as *const Inner, the address of the borrowed Inner.
into_raw(self) == self.ref

\* Variant: the borrow is taken of the other Inner.
from_raw_other(raw) == [ref |-> IF raw = HandleA THEN HandleB ELSE HandleA]

\* Item::from_raw: Self(&*raw), a borrow of the Inner at that address.
from_raw(raw) == [ref |-> raw]

\* What *resp_ptr at a null pointer can do: the process dies, or the read
\* yields arbitrary contents.
UBResults == {NoResult, OkNone} \cup {OkSome(t) : t \in {s \in Texts(1) : ~HasNul(s)}}

\* ---------------------------------------------------------------- Init
Init ==
    /\ inner \in Memories
    /\ chan \in Convs
    /\ rawp = NULL
    /\ orig = NoConv
    /\ pc = "idle"
    /\ style = "none"
    /\ msg = <<>>
    /\ msg_cstr = NoBuffer
    /\ resp_ptr = NULL
    /\ ret = PAM_SUCCESS
    /\ call = NoCall
    /\ cb = NotSeen
    /\ calls = 0
    /\ pam_response = NoResponse
    /\ resp_text = <<>>
    /\ derefs = {}
    /\ result = NoResult

Idle == pc \in {"idle", "returned"}

\* ------------------------------------------------------------- actions

\* send, lines 80-87: null the slot, build the CString (unwrap panics on an
\* interior nul), build the PamMessage and enter the callback.
SendCall ==
    /\ Idle
    /\ chan # NoConv
    /\ \E st \in Styles, text \in Texts(MaxLen) :
         LET c == CStringNew(text) IN
         /\ style' = st
         /\ msg' = text
         /\ resp_ptr' = NULL
         /\ ret' = PAM_SUCCESS
         /\ cb' = NotSeen
         /\ calls' = 0
         /\ derefs' = {}
         /\ pam_response' = NoResponse
         /\ resp_text' = <<>>
         /\ IF c.ok
            THEN /\ msg_cstr' = [live |-> TRUE, bytes |-> c.bytes]
                 /\ call' = CallArgs(chan, st)
                 /\ result' = NoResult
                 /\ pc' = "callback"
            ELSE /\ msg_cstr' = NoBuffer
                 /\ call' = NoCall
                 /\ result' = Panicked
                 /\ pc' = "panicked"
    /\ UNCHANGED <<inner, chan, rawp, orig>>

\* The foreign conversation function: it reads the message through the
\* pointers it was given, returns any status, and either leaves the response
\* slot alone or stores a PamResponse whose text is null or a C string.
Callback ==
    /\ pc = "callback"
    /\ calls' = calls + 1
    /\ cb' = [fn |-> call.fn,
              num_msg |-> call.num_msg,
              msg_style |-> call.msg_style,
              text |-> IF msg_cstr.live THEN msg_cstr.bytes ELSE <<>>,
              appdata_ptr |-> call.appdata_ptr]
    /\ \E r \in ResultCodes : ret' = r
    /\ \/ /\ resp_ptr' = resp_ptr
          /\ pam_response' = pam_response
          /\ resp_text' = resp_text
       \/ /\ resp_ptr' = RespAddr
          /\ pam_response' = PamResponse(NULL)
          /\ resp_text' = resp_text
       \/ /\ resp_ptr' = RespAddr
          /\ pam_response' = PamResponse(TextAddr)
          /\ \E b \in RespBuffers : resp_text' = b
    /\ pc' = "called"
    /\ UNCHANGED <<inner, chan, rawp, orig, style, msg, msg_cstr, call,
                   derefs, result>>

\* Variant: the buffer is leaked instead of dropped.
Return_leak(res, read) ==
    /\ result' = res
    /\ derefs' = read
    /\ msg_cstr' = msg_cstr
    /\ msg' = <<>>
    /\ call' = NoCall
    /\ cb' = NotSeen
    /\ pc' = "returned"

\* Leaving send: the value is returned; the borrow of msg ends and the
\* PamMessage and msg_cstr go out of scope.
Return(res, read) ==
    /\ result' = res
    /\ derefs' = read
    /\ msg_cstr' = NoBuffer
    /\ msg' = <<>>
    /\ call' = NoCall
    /\ cb' = NotSeen
    /\ pc' = "returned"

\* Variant: a failed conversation is tried once more.
SendReturn_retry ==
    /\ pc = "called"
    /\ IF ret # PAM_SUCCESS /\ calls < 2
       THEN /\ pc' = "callback"
            /\ UNCHANGED <<result, derefs, msg_cstr, msg, call, cb>>
       ELSE IF ret = PAM_SUCCESS /\ resp_ptr # NULL
            THEN Return(SendResult(ret, pam_response.resp, resp_text), {resp_ptr})
            ELSE Return(SendResult(ret, NULL, <<>>), {})
    /\ UNCHANGED <<inner, chan, rawp, orig, style, resp_ptr, ret, calls,
                   pam_response, resp_text>>

\* send, lines 89-100.
SendReturn ==
    /\ pc = "called"
    /\ IF ret = PAM_SUCCESS
       THEN IF resp_ptr = NULL
            THEN \E u \in UBResults :
                    IF u = NoResult
                    THEN /\ result' = NoResult
                         /\ derefs' = {resp_ptr}
                         /\ pc' = "crashed"
                         /\ UNCHANGED <<msg_cstr, msg, call, cb>>
                    ELSE Return(u, {resp_ptr})
            ELSE Return(SendResult(ret, pam_response.resp, resp_text), {resp_ptr})
       ELSE Return(SendResult(ret, NULL, <<>>), {})
    /\ UNCHANGED <<inner, chan, rawp, orig, style, resp_ptr, ret, calls,
                   pam_response, resp_text>>

\* Item::into_raw(self): the Conv is consumed, its pointer remains.
IntoRaw ==
    /\ Idle
    /\ chan # NoConv
    /\ rawp' = into_raw(chan)
    /\ orig' = chan
    /\ chan' = NoConv
    /\ UNCHANGED <<inner, pc, style, msg, msg_cstr, resp_ptr, ret, call, cb,
                   calls, pam_response, resp_text, derefs, result>>

\* Item::from_raw(raw) on the pointer into_raw produced.
FromRaw ==
    /\ Idle
    /\ rawp # NULL
    /\ chan' = from_raw(rawp)
    /\ rawp' = NULL
    /\ UNCHANGED <<inner, orig, pc, style, msg, msg_cstr, resp_ptr, ret, call,
                   cb, calls, pam_response, resp_text, derefs, result>>

Next == SendCall \/ Callback \/ SendReturn \/ IntoRaw \/ FromRaw

Spec == Init /\ [][Next]_vars

\* ---------------------------------------------------------------- claims

InSend == pc \in {"callback", "called"}

\* C1: when the callback returned a non-success status c, send returns
\* Err(c): the same code, never Ok and never another code.
C1_ErrorCodeUnchanged ==
    (pc = "returned" /\ ret # PAM_SUCCESS) =>
        /\ result.tag = "Err"
        /\ result.code = ret

C1_Witness ==
    /\ pc = "returned"
    /\ ret = "PAM_ABORT"
    /\ result = Err("PAM_ABORT")

\* C2: when the text handed to send holds an embedded nul, send fails at
\* the construction of the message and the callback is not invoked.
C2_NulFailsBeforeCall ==
    HasNul(msg) =>
        /\ pc = "panicked"
        /\ result = Panicked
        /\ calls = 0
        /\ call = NoCall
        /\ cb = NotSeen

C2_Witness ==
    /\ pc = "panicked"
    /\ HasNul(msg)
    /\ Len(msg) > 1
    /\ calls = 0

\* C3: for every style, when the callback returned success and produced a
\* Response with a non-null text pointer, send returns Ok(Some(t)) where t
\* is the response memory up to, and excluding, its first terminator.
C3_ResponseTextExact ==
    (/\ pc = "returned"
     /\ ret = PAM_SUCCESS
     /\ resp_ptr # NULL
     /\ pam_response.resp # NULL) =>
        /\ style \in Styles
        /\ result.tag = "Ok"
        /\ result.some
        /\ Len(result.text) < Len(resp_text)
        /\ resp_text[Len(result.text) + 1] = 0
        /\ \A i \in 1..Len(result.text) :
              result.text[i] = resp_text[i] /\ result.text[i] # 0

C3_Witness ==
    /\ pc = "returned"
    /\ style = "PAM_PROMPT_ECHO_OFF"
    /\ ret = PAM_SUCCESS
    /\ resp_ptr = RespAddr
    /\ pam_response.resp = TextAddr
    /\ Len(resp_text) = MaxRespLen + 1
    /\ result = OkSome(SubSeq(resp_text, 1, MaxRespLen))

\* C4: when the callback returned success and produced a Response whose
\* text pointer is null, send returns Ok(None), for the display-only styles
\* as for all others.
C4_NullTextIsNone ==
    (/\ pc = "returned"
     /\ ret = PAM_SUCCESS
     /\ resp_ptr # NULL
     /\ pam_response.resp = NULL) =>
        result = OkNone

C4_Witness ==
    /\ pc = "returned"
    /\ style \in {"PAM_ERROR_MSG", "PAM_TEXT_INFO"}
    /\ ret = PAM_SUCCESS
    /\ resp_ptr = RespAddr
    /\ pam_response.resp = NULL
    /\ result = OkNone

\* C5: the callback observes a message count of 1 and one message whose
\* style is send's style argument and whose text is the input bytes followed
\* by one terminator.
C5_MessageDelivered ==
    pc = "called" =>
        /\ ~HasNul(msg)
        /\ cb.num_msg = 1
        /\ cb.msg_style = style
        /\ Len(cb.text) = Len(msg) + 1
        /\ cb.text[Len(msg) + 1] = 0
        /\ \A i \in 1..Len(msg) : cb.text[i] = msg[i]

C5_Witness ==
    /\ pc = "called"
    /\ Len(msg) = MaxLen
    /\ cb.text = Append(msg, 0)
    /\ cb.msg_style = "PAM_PROMPT_ECHO_ON"

\* C6: the Conv obtained by from_raw from the pointer into_raw returned
\* borrows the handle the consumed Conv borrowed, and a send on it calls
\* that handle's callback with that handle's opaque context.
C6_RawRoundTrip ==
    (orig # NoConv /\ chan # NoConv) =>
        /\ chan = orig
        /\ InSend =>
              /\ call.fn = inner[orig.ref].conv
              /\ call.appdata_ptr = inner[orig.ref].appdata_ptr
        /\ pc = "called" =>
              /\ cb.fn = inner[orig.ref].conv
              /\ cb.appdata_ptr = inner[orig.ref].appdata_ptr

C6_Witness ==
    /\ orig = [ref |-> HandleB]
    /\ chan = orig
    /\ rawp = NULL
    /\ pc = "called"
    /\ cb.fn = inner[HandleB].conv

\* C7: a send with valid text invokes the callback exactly once, whatever
\* status it returns; send returns only after that invocation completed.
C7_CalledExactlyOnce ==
    /\ pc = "callback" => calls = 0
    /\ pc \in {"called", "returned", "crashed"} => calls = 1
    /\ pc \in {"idle", "panicked"} => calls = 0

C7_Witness ==
    /\ pc = "returned"
    /\ ret = "PAM_BUF_ERR"
    /\ calls = 1

\* C8: every callback invocation receives the opaque context of the handle
\* the channel borrows, and no step changes the fields of a handle.
C8_ContextUntouched ==
    /\ [](InSend => call.appdata_ptr = inner[chan.ref].appdata_ptr)
    /\ [](pc = "called" => cb.appdata_ptr = inner[chan.ref].appdata_ptr)
    /\ [][inner' = inner]_vars

C8_Witness ==
    /\ pc = "called"
    /\ chan = [ref |-> HandleA]
    /\ ret # PAM_SUCCESS
    /\ cb.appdata_ptr = inner[HandleA].appdata_ptr
    /\ cb.appdata_ptr # NULL

\* C9: the outbound text buffer is live and terminated while the callback
\* runs and until send returns, and it is released once send has returned
\* or failed: no buffer is held between sends.
C9_BufferLifetime ==
    /\ InSend =>
          /\ msg_cstr.live
          /\ Len(msg_cstr.bytes) > 0
          /\ msg_cstr.bytes[Len(msg_cstr.bytes)] = 0
    /\ pc \in {"idle", "returned", "panicked"} => msg_cstr = NoBuffer

C9_Witness ==
    /\ pc = "returned"
    /\ result.tag = "Err"
    /\ calls = 1
    /\ msg_cstr = NoBuffer

\* C10: send dereferences no null response pointer, and after a
\* non-success status it does not read the response slot at all.
C10_NoNullDeref ==
    /\ NULL \notin derefs
    /\ (pc = "returned" /\ ret # PAM_SUCCESS) => derefs = {}

====
